---- MODULE Spec2Model ----
(***************************************************************************)
(* Model of the Avellaneda market maker of GigaLint1/Kalshi-MM             *)
(* (src/helper.py): the quote engine (pure functions of mid price,        *)
(* inventory, elapsed time and the strategy parameters), the order        *)
(* reconciler (manage_orders / handle_order_side) and the strategy loop   *)
(* (run).                                                                  *)
(*                                                                         *)
(* Numbers.  Python floats holding dollar amounts and dimensionless       *)
(* ratios are represented in fixed point: the integer x stands for the    *)
(* real x / FP.  Venue prices are whole cents, so one cent is FP / 100    *)
(* units.  math.exp and math.log are computed by their series in the same *)
(* fixed point.  Products and quotients are floored to a unit where the   *)
(* float would be rounded to the nearest double.                           *)
(***************************************************************************)
EXTENDS Integers, Sequences, FiniteSets, TLC

\* One dollar in fixed-point units (1 unit = 0.0001 dollar).
FP == 100 * 100
\* One venue cent in fixed-point units: float(order['yes_price']) / 100.
CENT == FP \div 100

Abs(x) == IF x < 0 THEN -x ELSE x
Max(a, b) == IF a >= b THEN a ELSE b
Min(a, b) == IF a <= b THEN a ELSE b

\* a * b and a / b on fixed-point operands.
MulFP(a, b) == (a * b) \div FP
DivFP(a, b) == (a * FP) \div b

(***************************************************************************)
(* Two values no finite float takes: the float nan, and the mark of an     *)
(* expression that raised ZeroDivisionError.  Arithmetic hands both on: a  *)
(* raised exception ends the computation, and nan makes every sum,        *)
(* difference and product nan and every comparison false.                  *)
(***************************************************************************)
NaN == -(2 ^ 30)
ZeroDivisionError == NaN - 1

Raised(a, b) == a = ZeroDivisionError \/ b = ZeroDivisionError
IsNaN(a, b) == a = NaN \/ b = NaN

FAdd(a, b) == IF Raised(a, b) THEN ZeroDivisionError ELSE IF IsNaN(a, b) THEN NaN ELSE a + b
FSub(a, b) == IF Raised(a, b) THEN ZeroDivisionError ELSE IF IsNaN(a, b) THEN NaN ELSE a - b
\* a * n and a / n for a float a and a plain number n.
FTimes(a, n) == IF Raised(a, a) THEN ZeroDivisionError ELSE IF IsNaN(a, a) THEN NaN ELSE a * n
FOver(a, n) == IF Raised(a, a) THEN ZeroDivisionError ELSE IF IsNaN(a, a) THEN NaN ELSE a \div n

\* Python's max(a, b) and min(a, b): a, unless b compares above (below) it.
PyMax(a, b) ==
  IF Raised(a, b) THEN ZeroDivisionError
  ELSE IF IsNaN(a, b) THEN a
  ELSE IF b > a THEN b ELSE a
PyMin(a, b) ==
  IF Raised(a, b) THEN ZeroDivisionError
  ELSE IF IsNaN(a, b) THEN a
  ELSE IF b < a THEN b ELSE a

(***************************************************************************)
(* math.exp(-x) for x >= 0.  On [0, 1] the Taylor series of exp(x) is     *)
(* summed and inverted; above 1 the argument is halved; from ExpCutoff on *)
(* the value is below one fixed-point unit.                                *)
(***************************************************************************)
ExpTerms == 12
ExpCutoff == 10 * FP

RECURSIVE ExpSeries(_, _, _)
ExpSeries(x, n, term) ==
  IF n > ExpTerms \/ term = 0 THEN 0
  ELSE term + ExpSeries(x, n + 1, (term * x) \div (n * FP))

RECURSIVE ExpNeg(_)
ExpNeg(x) ==
  IF x >= ExpCutoff THEN 0
  ELSE IF x <= FP THEN (FP * FP) \div ExpSeries(x, 1, FP)
  ELSE MulFP(ExpNeg(x \div 2), ExpNeg(x - (x \div 2)))

(***************************************************************************)
(* math.log(1 + y) for y >= 0: 2 * atanh(y / (2 + y)); math.log(g), g > 0. *)
(***************************************************************************)
LnTerms == 12

RECURSIVE AtanhSeries(_, _, _)
AtanhSeries(z, n, pw) ==
  IF n > LnTerms \/ pw = 0 THEN 0
  ELSE (pw \div (2 * n - 1)) + AtanhSeries(z, n + 1, MulFP(MulFP(pw, z), z))

Ln1p(y) == 2 * AtanhSeries(DivFP(y, 2 * FP + y), 1, DivFP(y, 2 * FP + y))

\* The argument is brought into [1, 2) by doubling or halving.
RECURSIVE Ln(_)
Ln(g) ==
  IF g >= 2 * FP THEN Ln(g \div 2) + Ln1p(FP)
  ELSE IF g < FP THEN Ln(2 * g) - Ln1p(FP)
  ELSE Ln1p(g - FP)

(***************************************************************************)
(* The range of a double.  A fixed-point number cannot hold the magnitude *)
(* of base_gamma * exp(-r) once r is large, and three things the float     *)
(* does there decide what the spread formula returns.  With r the         *)
(* absolute position ratio, in fixed point:                                *)
(*   r > LogOneAt:  dynamic_gamma / k is below 2^-53, 1 + it is 1.0 and    *)
(*                  math.log gives 0.0;                                    *)
(*   r > InfAt:     2 / dynamic_gamma is above the largest double: inf;    *)
(*   r > ZeroAt:    dynamic_gamma is below half the smallest double: 0.0.  *)
(* The three logarithms are 53 ln 2, ln(max double) - ln 2 and 1075 ln 2.  *)
(***************************************************************************)
Ln2Pow53 == 367368
LnMaxDoubleHalved == 7090896
Ln2Pow1075 == 7451332

LogOneAt(p) == Ln(p.gamma) - Ln(p.k) + Ln2Pow53
InfAt(p) == Ln(p.gamma) + LnMaxDoubleHalved
ZeroAt(p) == Min(Ln2Pow1075, Ln(p.gamma) + Ln2Pow1075)

\* abs(position_ratio), in fixed point.
AbsRatio(p, inventory) == DivFP(Abs(inventory), p.max_position)

\* The magnitude of dynamic_gamma as a double.
GammaRegime(p, inventory) ==
  LET r == AbsRatio(p, inventory)
  IN  IF r > ZeroAt(p) THEN "zero"
      ELSE IF r > InfAt(p) THEN "reciprocal_overflows"
      ELSE IF r > LogOneAt(p) THEN "log_is_zero"
      ELSE "normal"

(***************************************************************************)
(* The quote engine.  p is the record of strategy parameters set by       *)
(* __init__: gamma, k, sigma, min_spread, position_limit_buffer and       *)
(* inventory_skew_factor in fixed point, T in seconds, max_position in    *)
(* contracts.  mid_price is in fixed point, inventory in contracts, t in  *)
(* seconds.                                                                *)
(***************************************************************************)
\* The fixed-point value of base_gamma * exp(-|position_ratio|); 0 stands for
\* every double below one unit, 0.0 itself only in the regime "zero".
calculate_dynamic_gamma(p, inventory) ==
  MulFP(p.gamma, ExpNeg(AbsRatio(p, inventory)))

\* 1 - t/T
TimeLeft(p, t) == FP - DivFP(t, p.T)

\* self.sigma**2
SigmaSq(p) == MulFP(p.sigma, p.sigma)

\* Faulty variant: the linear skew is not multiplied by the inventory.
reservation_price_skew_unscaled(p, mid_price, inventory, t) ==
  LET dynamic_gamma == calculate_dynamic_gamma(p, inventory)
      inventory_skew == MulFP(p.inventory_skew_factor, mid_price)
  IN  mid_price + inventory_skew
        - MulFP(MulFP(inventory * dynamic_gamma, SigmaSq(p)), TimeLeft(p, t))

calculate_reservation_price(p, mid_price, inventory, t) ==
  LET dynamic_gamma == calculate_dynamic_gamma(p, inventory)
      inventory_skew == MulFP(inventory * p.inventory_skew_factor, mid_price)
  IN  mid_price + inventory_skew
        - MulFP(MulFP(inventory * dynamic_gamma, SigmaSq(p)), TimeLeft(p, t))

\* Below this value of dynamic_gamma the fixed point no longer resolves
\* log(1 + dynamic_gamma / k), and the product is taken at its limit 2 / k.
GammaResolved == 100

\* (2 / dynamic_gamma) * math.log(1 + (dynamic_gamma / self.k))
LiquidityTerm(p, inventory) ==
  LET dynamic_gamma == calculate_dynamic_gamma(p, inventory)
      regime == GammaRegime(p, inventory)
  IN  IF regime = "zero" THEN ZeroDivisionError
      ELSE IF regime = "reciprocal_overflows" THEN NaN
      ELSE IF regime = "log_is_zero" THEN 0
      ELSE IF dynamic_gamma < GammaResolved THEN DivFP(2 * FP, p.k)
      ELSE MulFP(DivFP(2 * FP, dynamic_gamma), Ln1p(DivFP(dynamic_gamma, p.k)))

\* base_spread * spread_adjustment * 0.01, spread_adjustment being
\* 1 - position_ratio ** 2 = (max_position^2 - inventory^2) / max_position^2.
AdjustedSpread(p, base_spread, inventory) ==
  LET cap2 == p.max_position * p.max_position
  IN  FOver(FOver(FTimes(base_spread, cap2 - inventory * inventory), cap2), 100)

calculate_optimal_spread(p, t, inventory) ==
  LET dynamic_gamma == calculate_dynamic_gamma(p, inventory)
      base_spread == FAdd(MulFP(MulFP(dynamic_gamma, SigmaSq(p)), TimeLeft(p, t)),
                          LiquidityTerm(p, inventory))
  IN  PyMax(AdjustedSpread(p, base_spread, inventory), p.min_spread)

\* The two one-sided spreads of calculate_asymmetric_quotes, <<bid, ask>>.
QuoteSpreads(p, inventory, t) ==
  LET base_spread == calculate_optimal_spread(p, t, inventory)
      \* base_spread * abs(position_ratio) * 3
      spread_adjustment ==
        FTimes(FOver(FTimes(base_spread, Abs(inventory)), p.max_position), 3)
      far == FAdd(FOver(base_spread, 2), spread_adjustment)
      near == PyMax(FSub(FOver(base_spread, 2), spread_adjustment), p.min_spread \div 2)
  IN  IF inventory > 0 THEN << far, near >> ELSE << near, far >>

\* Faulty variant: the bid is not capped at the mid, nor the ask held above it.
asymmetric_quotes_unclamped(p, mid_price, inventory, t) ==
  LET reservation_price == calculate_reservation_price(p, mid_price, inventory, t)
      spreads == QuoteSpreads(p, inventory, t)
  IN  << PyMax(0, FSub(reservation_price, spreads[1])),
         PyMin(FP, FAdd(reservation_price, spreads[2])) >>

calculate_asymmetric_quotes(p, mid_price, inventory, t) ==
  LET reservation_price == calculate_reservation_price(p, mid_price, inventory, t)
      spreads == QuoteSpreads(p, inventory, t)
      bid_spread == spreads[1]
      ask_spread == spreads[2]
      bid_price == PyMax(0, PyMin(mid_price, FSub(reservation_price, bid_spread)))
      ask_price == PyMin(FP, PyMax(mid_price, FAdd(reservation_price, ask_spread)))
  IN  <<bid_price, ask_price>>

\* Faulty variant: the sizes are not held at 1 or above.
order_sizes_no_minimum(p, inventory) ==
  LET remaining_capacity == p.max_position - Abs(inventory)
      buffer_size == (p.max_position * p.position_limit_buffer) \div FP
  IN  IF inventory > 0
      THEN << Min(buffer_size, remaining_capacity), p.max_position >>
      ELSE << p.max_position, Min(buffer_size, remaining_capacity) >>

\* Faulty variant: the capped side and the full-size side are exchanged.
order_sizes_swapped(p, inventory) ==
  LET remaining_capacity == p.max_position - Abs(inventory)
      buffer_size == (p.max_position * p.position_limit_buffer) \div FP
  IN  IF inventory > 0
      THEN << Max(1, p.max_position), Max(1, Min(buffer_size, remaining_capacity)) >>
      ELSE << Max(1, Min(buffer_size, remaining_capacity)), Max(1, p.max_position) >>

calculate_order_sizes(p, inventory) ==
  LET remaining_capacity == p.max_position - Abs(inventory)
      buffer_size == (p.max_position * p.position_limit_buffer) \div FP
      buy_size == IF inventory > 0
                  THEN Max(1, Min(buffer_size, remaining_capacity))
                  ELSE Max(1, p.max_position)
      sell_size == IF inventory > 0
                   THEN Max(1, p.max_position)
                   ELSE Max(1, Min(buffer_size, remaining_capacity))
  IN  <<buy_size, sell_size>>


(***************************************************************************)
(* Gateway responses.  A market response carries the four cent prices of  *)
(* get_market; a position response is the list 'market_positions'; the    *)
(* resting orders of the venue are the list 'orders'.                      *)
(***************************************************************************)
TICKER == "MKT"

\* round(x, 2) of a sum of two cent prices halved: a whole number of cents
\* when the sum is even; on a half cent the float decides which neighbour.
RoundHalfCents(sum) ==
  IF sum % 2 = 0 THEN {sum \div 2} ELSE {sum \div 2, sum \div 2 + 1}

\* The mids get_mid_price can return for market response m, as a set of
\* [yes, no] records in fixed point.
get_mid_price(m) ==
  { [yes |-> CENT * y, no |-> CENT * n] :
      y \in RoundHalfCents(m.yes_bid + m.yes_ask),
      n \in RoundHalfCents(m.no_bid + m.no_ask) }

RECURSIVE SumPositions(_, _)
SumPositions(positions, ticker) ==
  IF positions = << >> THEN 0
  ELSE (IF Head(positions).ticker = ticker THEN Head(positions).position ELSE 0)
         + SumPositions(Tail(positions), ticker)

get_current_position(response) == SumPositions(response, TICKER)

\* current_price of handle_order_side: the order's price on the traded side.
OrderPrice(p, order) ==
  IF p.trade_side = "yes" THEN CENT * order.yes_price ELSE CENT * order.no_price

\* Faulty variant of the filter of manage_orders: the side is not compared.
RECURSIVE SelectOrders_any_side(_, _, _)
SelectOrders_any_side(current_orders, trade_side, action) ==
  IF current_orders = << >> THEN << >>
  ELSE LET o == Head(current_orders)
           rest == SelectOrders_any_side(Tail(current_orders), trade_side, action)
       IN  IF o.action = action THEN <<o>> \o rest ELSE rest

RECURSIVE SelectOrders(_, _, _)
SelectOrders(current_orders, trade_side, action) ==
  IF current_orders = << >> THEN << >>
  ELSE LET o == Head(current_orders)
           rest == SelectOrders(Tail(current_orders), trade_side, action)
       IN  IF o.side = trade_side /\ o.action = action THEN <<o>> \o rest ELSE rest

RECURSIVE RemoveOrder(_, _)
RemoveOrder(orders, id) ==
  IF orders = << >> THEN << >>
  ELSE IF Head(orders).order_id = id THEN RemoveOrder(Tail(orders), id)
       ELSE <<Head(orders)>> \o RemoveOrder(Tail(orders), id)

OrderIds(orders) == { orders[i].order_id : i \in 1..Len(orders) }

\* The whole-cent prices c for which the double c / 100 times 100 falls just
\* below c (0.29 * 100 is 28.999999999999996), so that int() yields c - 1.
TruncatingCents == {29, 57, 58}

\* int(desired_price * 100), in doubles.
PriceCents(desired_price) ==
  IF desired_price % CENT = 0 /\ (desired_price \div CENT) \in TruncatingCents
  THEN desired_price \div CENT - 1
  ELSE desired_price \div CENT

\* The whole-cent prices c for which the doubles c / 100 and (c + 1) / 100
\* differ by less than the double 0.01.
CloseCents == {2, 5, 7, 8, 10, 11, 14, 17, 20, 23, 28, 34, 40, 46, 56, 68, 81, 93}

\* abs(current_price - desired_price) < 0.01, in doubles: prices exactly one
\* cent apart compare as the rounding of their difference falls.
PriceClose(current, desired) ==
  LET d == Abs(current - desired)
  IN  \/ d < CENT
      \/ d = CENT /\ (Min(current, desired) \div CENT) \in CloseCents

\* Faulty variant of the keep test: the price must equal the desired price.
KeepTest_exact_price(p, keep_order, order, desired_price, desired_size) ==
  /\ keep_order = << >>
  /\ OrderPrice(p, order) = desired_price
  /\ order.remaining_count = desired_size

\* Faulty variant of the keep test: "keep_order is None" is not tested.
KeepTest_every_match(p, keep_order, order, desired_price, desired_size) ==
  /\ PriceClose(OrderPrice(p, order), desired_price)
  /\ order.remaining_count = desired_size

\* Faulty variant of the keep test: the remaining size is not compared.
KeepTest_any_size(p, keep_order, order, desired_price, desired_size) ==
  /\ keep_order = << >>
  /\ PriceClose(OrderPrice(p, order), desired_price)

\* The keep test of handle_order_side.
KeepTest(p, keep_order, order, desired_price, desired_size) ==
  /\ keep_order = << >>
  /\ PriceClose(OrderPrice(p, order), desired_price)
  /\ order.remaining_count = desired_size

\* Faulty variant of the placement gate: the comparisons are not strict.
PlaceGate_not_strict(action, desired_price, current_price) ==
  \/ action = "buy" /\ desired_price <= current_price
  \/ action = "sell" /\ desired_price >= current_price

\* The placement gate of handle_order_side.
PlaceGate(action, desired_price, current_price) ==
  \/ action = "buy" /\ desired_price < current_price
  \/ action = "sell" /\ desired_price > current_price


(***************************************************************************)
(* Configurations and gateway data the model draws from.                   *)
(***************************************************************************)
\* Run horizon T (seconds) and cycle period dt of the modelled run.
RunT == 2
Dt == 1
\* Venue fills or expiries the model lets happen during a run.
MaxFills == 1

\* create_market_maker's defaults (gamma 0.1, k 1.5, sigma 0.5, max_position
\* 100, min_spread 0.01, position_limit_buffer 0.1, inventory_skew_factor
\* 0.01), with the run horizon RunT.
RunParams ==
  { [gamma |-> 1000, k |-> 15000, sigma |-> 5000, T |-> RunT,
     max_position |-> 100, min_spread |-> 100, position_limit_buffer |-> 1000,
     inventory_skew_factor |-> 100, trade_side |-> ts] : ts \in {"yes", "no"} }

Markets ==
  { [yes_bid |-> 49, yes_ask |-> 51, no_bid |-> 49, no_ask |-> 51],
    [yes_bid |-> 50, yes_ask |-> 51, no_bid |-> 49, no_ask |-> 50] }

PositionResponses ==
  { << >>,
    << [ticker |-> "OTHER", position |-> 7], [ticker |-> TICKER, position |-> -3] >> }

MkOrder(id, side, action, price, count) ==
  [order_id |-> id, side |-> side, action |-> action,
   yes_price |-> IF side = "yes" THEN price ELSE 100 - price,
   no_price |-> IF side = "no" THEN price ELSE 100 - price,
   remaining_count |-> count]

InitialBooks ==
  { << >>,
    << MkOrder(1, "yes", "buy", 49, 100), MkOrder(2, "yes", "buy", 49, 100),
       MkOrder(3, "yes", "sell", 51, 10), MkOrder(4, "no", "buy", 49, 100),
       MkOrder(5, "no", "buy", 48, 100) >> }

\* The venue numbers a new order after the ones it holds.
FirstNewId(orders) == Len(orders) + 1

(***************************************************************************)
(* State.                                                                  *)
(***************************************************************************)
VARIABLES
  params,         \* the strategy's parameters (self.*), fixed by __init__
  pc,             \* where run / manage_orders / handle_order_side stands
  clock,          \* time.time() - start_time, seconds
  book,           \* the venue's resting orders of the market
  next_id,        \* the order id the venue gives the next order
  fills,          \* venue fills so far
  mid_price,      \* run's locals
  inventory,
  current_time,
  quote,          \* [bid_price, ask_price, buy_size, sell_size]
  buy_orders,     \* manage_orders' locals
  sell_orders,
  action,         \* handle_order_side's arguments and locals
  orders,
  idx,            \* position of the for loop in orders (1-based)
  keep_order,     \* << >> for None, <<order>> otherwise
  desired_price,
  desired_size,
  current_price,
  trace,          \* gateway calls and log records of the current cycle
  result,         \* output of the quote function applied (SpecQuote)
  wall,           \* datetime.now(), milliseconds (SpecThrottle)
  last_api_call,  \* KalshiHttpClient.last_api_call of the shared client
  threads,        \* the worker threads inside the shared client
  sent            \* the HTTP requests issued, in order: [thread, at]

vars == <<params, pc, clock, book, next_id, fills, mid_price, inventory,
          current_time, quote, buy_orders, sell_orders, action, orders, idx,
          keep_order, desired_price, desired_size, current_price, trace, result,
          wall, last_api_call, threads, sent>>

throttleVars == <<wall, last_api_call, threads, sent>>
runLocals == <<mid_price, inventory, current_time, quote>>
sideLocals == <<action, orders, idx, keep_order, desired_price, desired_size,
                current_price>>

\* Trace records.
CallEv(op, act, id, price, count, ok) ==
  [kind |-> "call", op |-> op, action |-> act, order_id |-> id,
   price |-> price, count |-> count, ok |-> ok]
LogEv(level, msg, act, id) ==
  [kind |-> "log", level |-> level, msg |-> msg, action |-> act, order_id |-> id]
\* Entry into handle_order_side with its arguments.
HandleEv(act, os, price, size) ==
  [kind |-> "handle", action |-> act, orders |-> os,
   desired_price |-> price, desired_size |-> size]

NoResult == [fn |-> "none", val |-> << >>, raised |-> FALSE]

\* The worker threads of runner.py, one per configured strategy.
Threads == {1, 2}

\* A thread outside the client.
IdleThread == [pc |-> "idle", now |-> 0, wake |-> 0, calls |-> 0]

\* KalshiBaseClient.__init__: last_api_call = datetime.now(); no thread is
\* inside the client.
ClientIdle ==
  /\ wall = 0
  /\ last_api_call = 0
  /\ threads = [t \in Threads |-> IdleThread]
  /\ sent = << >>

\* The state when run is called, the venue holding one of `books`.
InitWith(books) ==
  /\ params \in RunParams
  /\ pc = "while"
  /\ clock = 0
  /\ book \in books
  /\ next_id = FirstNewId(book)
  /\ fills = 0
  /\ mid_price = 0
  /\ inventory = 0
  /\ current_time = 0
  /\ quote = [bid_price |-> 0, ask_price |-> 0, buy_size |-> 0, sell_size |-> 0]
  /\ buy_orders = << >>
  /\ sell_orders = << >>
  /\ action = "none"
  /\ orders = << >>
  /\ idx = 1
  /\ keep_order = << >>
  /\ desired_price = 0
  /\ desired_size = 0
  /\ current_price = 0
  /\ trace = << >>
  /\ result = NoResult
  /\ ClientIdle

Init == InitWith(InitialBooks)


(***************************************************************************)
(* The strategy loop: AvellanedaMarketMaker.run under run_strategy.        *)
(***************************************************************************)
\* A gateway fetch raised: the exception leaves run.
Raise(op) ==
  /\ trace' = Append(trace, CallEv(op, "none", 0, 0, 0, FALSE))
  /\ pc' = "raised"

\* Faulty variant of the loop test: a cycle still starts at elapsed = T.
WhileTest_inclusive(elapsed, T) == elapsed <= T

\* The loop test of run.
WhileTest(elapsed, T) == elapsed < T

\* while time.time() - start_time < self.T
RunWhile ==
  /\ pc = "while"
  /\ IF WhileTest(clock, params.T)
     THEN /\ current_time' = clock
          /\ trace' = << LogEv("info", "running", "none", 0) >>
          /\ pc' = "get_mid_price"
     ELSE /\ current_time' = current_time
          /\ trace' = << LogEv("info", "finished", "none", 0) >>
          /\ pc' = "finished"
  /\ UNCHANGED <<throttleVars, params, clock, book, next_id, fills, mid_price, inventory, quote,
                 buy_orders, sell_orders, sideLocals, result>>

\* mid_prices = self.get_mid_price(); mid_price = mid_prices[self.trade_side]
GetMidPriceIn(markets) ==
  /\ pc = "get_mid_price"
  /\ \/ \E m \in markets : \E mids \in get_mid_price(m) :
          /\ mid_price' = mids[params.trade_side]
          /\ trace' = Append(trace, CallEv("get_market", "none", 0, 0, 0, TRUE))
          /\ pc' = "get_current_position"
     \/ /\ Raise("get_market")
        /\ mid_price' = mid_price
  /\ UNCHANGED <<throttleVars, params, clock, book, next_id, fills, inventory, current_time, quote,
                 buy_orders, sell_orders, sideLocals, result>>

\* The fetch against the market snapshots of the modelled run.
GetMidPrice == GetMidPriceIn(Markets)

\* inventory = self.get_current_position(), then the quote engine.
GetCurrentPosition ==
  /\ pc = "get_current_position"
  /\ \/ /\ Raise("get_positions")
        /\ UNCHANGED <<inventory, quote>>
     \/ \E response \in PositionResponses :
          LET inv == get_current_position(response)
              prices == calculate_asymmetric_quotes(params, mid_price, inv, current_time)
              sizes == calculate_order_sizes(params, inv)
          IN  /\ inventory' = inv
              /\ quote' = [bid_price |-> prices[1], ask_price |-> prices[2],
                           buy_size |-> sizes[1], sell_size |-> sizes[2]]
              /\ trace' = Append(trace, CallEv("get_positions", "none", 0, 0, 0, TRUE))
              /\ pc' = "manage_orders"
  /\ UNCHANGED <<throttleVars, params, clock, book, next_id, fills, mid_price, current_time,
                 buy_orders, sell_orders, sideLocals, result>>

(***************************************************************************)
(* The order reconciler: manage_orders and handle_order_side.              *)
(***************************************************************************)
\* The order of the steps of handle_order_side: the control point that
\* follows `at`, for a list of n orders whose idx-th has just been examined.
\* Faulty variant: the mid is fetched on entry, before the cancels.
HandleFlow_fetch_first(at, i, n) ==
  IF at = "enter" THEN "refetch"
  ELSE IF at = "refetch" THEN (IF n = 0 THEN "place" ELSE "for_order")
  ELSE IF i = n THEN "place" ELSE "for_order"

\* Faulty variant: the for loop is left after its first iteration.
HandleFlow_first_only(at, i, n) ==
  IF at = "enter" THEN (IF n = 0 THEN "refetch" ELSE "for_order")
  ELSE IF at = "refetch" THEN "place"
  ELSE "refetch"

HandleFlow(at, i, n) ==
  IF at = "enter" THEN (IF n = 0 THEN "refetch" ELSE "for_order")
  ELSE IF at = "refetch" THEN "place"
  ELSE IF i = n THEN "refetch" ELSE "for_order"

\* "except Exception as e" around cancel_order and around create_order: the
\* failure of the call is caught there.
\* Faulty variant: the failure is not caught.
OrderFailureEscapes == FALSE

OrderFailureCaught == TRUE

\* The call self.handle_order_side(act, os, price, size), after trace tr.
EnterSide(tr, act, os, price, size) ==
  /\ action' = act
  /\ orders' = os
  /\ idx' = 1
  /\ keep_order' = << >>
  /\ desired_price' = price
  /\ desired_size' = size
  /\ current_price' = current_price
  /\ trace' = Append(tr, HandleEv(act, os, price, size))
  /\ pc' = HandleFlow("enter", 0, Len(os))

\* Faulty variant of manage_orders: the sell side is handled first.
ManageOrders_sell_first ==
  /\ pc = "manage_orders"
  /\ \/ LET tr == Append(trace, CallEv("get_orders", "none", 0, 0, 0, TRUE))
            buys == SelectOrders(book, params.trade_side, "buy")
            sells == SelectOrders(book, params.trade_side, "sell")
        IN  /\ buy_orders' = buys
            /\ sell_orders' = sells
            /\ EnterSide(tr, "sell", sells, quote.ask_price, quote.sell_size)
     \/ /\ Raise("get_orders")
        /\ UNCHANGED <<buy_orders, sell_orders, sideLocals>>
  /\ UNCHANGED <<throttleVars, params, clock, book, next_id, fills, runLocals, result>>

ManageOrders ==
  /\ pc = "manage_orders"
  /\ \/ LET tr == Append(trace, CallEv("get_orders", "none", 0, 0, 0, TRUE))
            buys == SelectOrders(book, params.trade_side, "buy")
            sells == SelectOrders(book, params.trade_side, "sell")
        IN  /\ buy_orders' = buys
            /\ sell_orders' = sells
            /\ EnterSide(tr, "buy", buys, quote.bid_price, quote.buy_size)
     \/ /\ Raise("get_orders")
        /\ UNCHANGED <<buy_orders, sell_orders, sideLocals>>
  /\ UNCHANGED <<throttleVars, params, clock, book, next_id, fills, runLocals, result>>

\* Faulty variant: a failed cancel is tried a second time at once.
FailedCancel_retried(act, id) ==
  << CallEv("cancel_order", act, id, 0, 0, FALSE),
     CallEv("cancel_order", act, id, 0, 0, FALSE) >>

\* The gateway calls of the try block around cancel_order when the call
\* fails: the one call; the except clause only logs.
FailedCancel(act, id) == << CallEv("cancel_order", act, id, 0, 0, FALSE) >>

\* One iteration of "for order in orders".
ExamineOrder ==
  /\ pc = "for_order"
  /\ LET order == orders[idx]
         id == order.order_id
         keep == KeepTest(params, keep_order, order, desired_price, desired_size)
         cancelling == Append(trace, LogEv("info", "cancelling", action, id))
         failed == cancelling \o FailedCancel(action, id)
         next == HandleFlow("for_order", idx, Len(orders))
     IN  \/ /\ keep
            /\ keep_order' = << order >>
            /\ trace' = Append(trace, LogEv("info", "keeping", action, id))
            /\ book' = book
            /\ pc' = next
         \/ /\ ~keep
            /\ id \in OrderIds(book)
            /\ keep_order' = keep_order
            /\ trace' = Append(cancelling, CallEv("cancel_order", action, id, 0, 0, TRUE))
            /\ book' = RemoveOrder(book, id)
            /\ pc' = next
         \/ /\ ~keep
            /\ keep_order' = keep_order
            /\ book' = book
            /\ IF OrderFailureCaught
               THEN /\ trace' = Append(failed, LogEv("error", "cancel_failed", action, id))
                    /\ pc' = next
               ELSE /\ trace' = failed
                    /\ pc' = "raised"
  /\ idx' = idx + 1
  /\ UNCHANGED <<throttleVars, params, clock, next_id, fills, runLocals, buy_orders, sell_orders,
                 action, orders, desired_price, desired_size, current_price, result>>

\* current_price = self.get_mid_price()[self.trade_side]
RefetchMidIn(markets) ==
  /\ pc = "refetch"
  /\ \/ \E m \in markets : \E mids \in get_mid_price(m) :
          /\ current_price' = mids[params.trade_side]
          /\ trace' = Append(trace, CallEv("get_market", action, 0,
                                           mids[params.trade_side], 0, TRUE))
          /\ pc' = HandleFlow("refetch", idx - 1, Len(orders))
     \/ /\ trace' = Append(trace, CallEv("get_market", action, 0, 0, 0, FALSE))
        /\ pc' = "raised"
        /\ current_price' = current_price
  /\ UNCHANGED <<throttleVars, params, clock, book, next_id, fills, runLocals, buy_orders,
                 sell_orders, action, orders, idx, keep_order, desired_price,
                 desired_size, result>>

\* The re-fetch against the market snapshots of the modelled run.
RefetchMid == RefetchMidIn(Markets)

\* handle_order_side returns after trace tr: manage_orders goes on to the sell
\* side, or returns to run, which sleeps.
LeaveSide(tr) ==
  IF action = "buy"
  THEN EnterSide(tr, "sell", sell_orders, quote.ask_price, quote.sell_size)
  ELSE /\ trace' = tr
       /\ pc' = "sleep"
       /\ UNCHANGED sideLocals

\* if keep_order is None: place or skip.
Place ==
  /\ pc = "place"
  /\ LET price_cents == PriceCents(desired_price)
         gate == PlaceGate(action, desired_price, current_price)
     IN  \/ /\ keep_order # << >>
            /\ UNCHANGED <<book, next_id>>
            /\ LeaveSide(trace)
         \/ /\ keep_order = << >>
            /\ gate
            /\ price_cents \in 1..99
            /\ book' = Append(book, MkOrder(next_id, params.trade_side, action,
                                            price_cents, desired_size))
            /\ next_id' = next_id + 1
            /\ LeaveSide(Append(Append(trace,
                   CallEv("create_order", action, next_id, price_cents, desired_size, TRUE)),
                   LogEv("info", "placed", action, next_id)))
         \/ /\ keep_order = << >>
            /\ gate
            /\ UNCHANGED <<book, next_id>>
            /\ LET failed == Append(trace, CallEv("create_order", action, 0,
                                                  price_cents, desired_size, FALSE))
               IN  IF OrderFailureCaught
                   THEN LeaveSide(Append(failed, LogEv("error", "place_failed", action, 0)))
                   ELSE /\ trace' = failed
                        /\ pc' = "raised"
                        /\ UNCHANGED sideLocals
         \/ /\ keep_order = << >>
            /\ ~gate
            /\ UNCHANGED <<book, next_id>>
            /\ LeaveSide(Append(trace, LogEv("info", "skipped", action, 0)))
  /\ UNCHANGED <<throttleVars, params, clock, fills, runLocals, buy_orders, sell_orders, result>>

\* The locals of run, manage_orders and handle_order_side before a cycle has
\* assigned them.
ResetLocals ==
  /\ mid_price' = 0
  /\ inventory' = 0
  /\ current_time' = 0
  /\ quote' = [bid_price |-> 0, ask_price |-> 0, buy_size |-> 0, sell_size |-> 0]
  /\ buy_orders' = << >>
  /\ sell_orders' = << >>
  /\ action' = "none"
  /\ orders' = << >>
  /\ idx' = 1
  /\ keep_order' = << >>
  /\ desired_price' = 0
  /\ desired_size' = 0
  /\ current_price' = 0

\* time.sleep(dt).  Every local of the finished cycle is dead: the next
\* cycle assigns each before reading it, so the model forgets them here.
Sleep ==
  /\ pc = "sleep"
  /\ clock' = clock + Dt
  /\ pc' = "while"
  /\ trace' = << >>
  /\ ResetLocals
  /\ UNCHANGED <<throttleVars, params, book, next_id, fills, result>>

\* Between two cycles the venue fills the oldest resting order of the traded
\* side, wholly (or it expires) or down to one remaining contract.
VenueFill ==
  /\ pc = "while"
  /\ clock > 0
  /\ clock < params.T
  /\ fills < MaxFills
  /\ \E i \in 1..Len(book) :
       /\ book[i].side = params.trade_side
       /\ \A j \in 1..(i - 1) : book[j].side # params.trade_side
       /\ \/ book' = RemoveOrder(book, book[i].order_id)
          \/ /\ book[i].remaining_count > 1
             /\ book' = [book EXCEPT ![i].remaining_count = 1]
  /\ fills' = fills + 1
  /\ UNCHANGED <<throttleVars, params, pc, clock, next_id, runLocals, buy_orders, sell_orders,
                 sideLocals, trace, result>>

\* run_strategy: except Exception -> log, re-raise; finally -> log.
\* Faulty variant of run_strategy: the exception is swallowed without the
\* error line.
RunStrategyExcept_silent ==
  /\ pc = "raised"
  /\ trace' = Append(trace, LogEv("info", "stopped", "none", 0))
  /\ pc' = "stopped"
  /\ UNCHANGED <<throttleVars, params, clock, book, next_id, fills, runLocals, buy_orders,
                 sell_orders, sideLocals, result>>

RunStrategyExcept ==
  /\ pc = "raised"
  /\ trace' = Append(Append(trace, LogEv("error", "error_occurred", "none", 0)),
                     LogEv("info", "stopped", "none", 0))
  /\ pc' = "stopped"
  /\ UNCHANGED <<throttleVars, params, clock, book, next_id, fills, runLocals, buy_orders,
                 sell_orders, sideLocals, result>>

RunStrategyFinally ==
  /\ pc = "finished"
  /\ trace' = Append(trace, LogEv("info", "stopped", "none", 0))
  /\ pc' = "stopped"
  /\ UNCHANGED <<throttleVars, params, clock, book, next_id, fills, runLocals, buy_orders,
                 sell_orders, sideLocals, result>>

\* An external interrupt (SIGINT) arrives while the strategy runs.  Python
\* raises KeyboardInterrupt in the main thread only, which waits in the
\* ThreadPoolExecutor block of runner.py; run_strategy runs in a worker
\* thread, so its "except KeyboardInterrupt" and "finally" clauses do not
\* run: the process exits and the worker ends where it stands.
Interrupt ==
  /\ pc \in {"while", "get_mid_price", "get_current_position", "manage_orders",
             "for_order", "refetch", "place", "sleep"}
  /\ pc' = "killed"
  /\ UNCHANGED <<throttleVars, params, clock, book, next_id, fills, runLocals,
                 buy_orders, sell_orders, sideLocals, trace, result>>

Next ==
  \/ RunWhile
  \/ GetMidPrice
  \/ GetCurrentPosition
  \/ ManageOrders
  \/ ExamineOrder
  \/ RefetchMid
  \/ Place
  \/ Sleep
  \/ VenueFill
  \/ RunStrategyExcept
  \/ RunStrategyFinally
  \/ Interrupt

Spec == Init /\ [][Next]_vars

\* A run on an account without resting orders.
InitRun == InitWith({ << >> })

\* The worker thread keeps running: each step of the strategy that can be
\* taken is eventually taken.  Nothing is assumed of the venue's fills or of
\* interrupts.
Fairness ==
  /\ WF_vars(RunWhile)
  /\ WF_vars(GetMidPrice)
  /\ WF_vars(GetCurrentPosition)
  /\ WF_vars(ManageOrders)
  /\ WF_vars(ExamineOrder)
  /\ WF_vars(RefetchMid)
  /\ WF_vars(Place)
  /\ WF_vars(Sleep)
  /\ WF_vars(RunStrategyExcept)
  /\ WF_vars(RunStrategyFinally)

SpecRun == InitRun /\ [][Next]_vars /\ Fairness


(***************************************************************************)
(* One cycle of run on its own: the venue holds any of the books of        *)
(* CycleBooks when the cycle starts, and the cycle runs until it sleeps or *)
(* raises.                                                                 *)
(***************************************************************************)
\* Resting orders the venue may hold for the account: none; the book of a
\* run with duplicates; one matching order per action and side; orders that
\* were partly filled or rest at other prices.
CycleBooks ==
  InitialBooks \cup
  { << MkOrder(1, "yes", "buy", 49, 100), MkOrder(2, "yes", "sell", 51, 10),
       MkOrder(3, "no", "buy", 49, 100), MkOrder(4, "no", "sell", 51, 10) >>,
    << MkOrder(1, "yes", "buy", 49, 1), MkOrder(2, "yes", "buy", 49, 100),
       MkOrder(3, "yes", "sell", 52, 10), MkOrder(4, "yes", "sell", 51, 10),
       MkOrder(5, "yes", "sell", 50, 10), MkOrder(6, "no", "sell", 51, 1),
       MkOrder(7, "no", "buy", 50, 100), MkOrder(8, "no", "buy", 49, 100) >> }

InitCycle == InitWith(CycleBooks)

NextCycle ==
  \/ RunWhile
  \/ GetMidPrice
  \/ GetCurrentPosition
  \/ ManageOrders
  \/ ExamineOrder
  \/ RefetchMid
  \/ Place

SpecCycle == InitCycle /\ [][NextCycle]_vars

(***************************************************************************)
(* Consecutive cycles on a market quoted around 0.58: the run starts from  *)
(* an empty book, so every order a cycle meets was placed by an earlier    *)
(* cycle.  No fill, no interrupt.                                          *)
(***************************************************************************)
\* Snapshots with a yes mid of 0.58 and of 0.60 (no mids 0.42 and 0.40).
FlapMarkets ==
  { [yes_bid |-> 57, yes_ask |-> 59, no_bid |-> 41, no_ask |-> 43],
    [yes_bid |-> 59, yes_ask |-> 61, no_bid |-> 39, no_ask |-> 41] }

NextFlap ==
  \/ RunWhile
  \/ GetMidPriceIn(FlapMarkets)
  \/ GetCurrentPosition
  \/ ManageOrders
  \/ ExamineOrder
  \/ RefetchMidIn(FlapMarkets)
  \/ Place
  \/ Sleep

SpecFlap == InitRun /\ [][NextFlap]_vars

(***************************************************************************)
(* Consecutive cycles over a book that also holds orders of the side the   *)
(* strategy does not trade.  No fill, no interrupt: only the strategy      *)
(* changes the book.                                                       *)
(***************************************************************************)
NextSides ==
  \/ RunWhile
  \/ GetMidPrice
  \/ GetCurrentPosition
  \/ ManageOrders
  \/ ExamineOrder
  \/ RefetchMid
  \/ Place
  \/ Sleep

SpecSides == Init /\ [][NextSides]_vars


(***************************************************************************)
(* The shared KalshiHttpClient under the worker threads of runner.py: each *)
(* thread calls get/post/delete, which run rate_limit and then issue the   *)
(* HTTP request.  No lock guards last_api_call, so the statements of the   *)
(* threads interleave.                                                     *)
(***************************************************************************)
\* THRESHOLD_IN_MILLISECONDS
Threshold == 100
\* The wall clock advances by TickMs up to MaxWall; a thread makes at most
\* MaxCalls calls.
TickMs == 50
MaxWall == 200
MaxCalls == 2

\* if now - self.last_api_call < timedelta(microseconds=...)
MustSleep(now, last) == now - last < Threshold

InitThrottle ==
  /\ ClientIdle
  /\ params = CHOOSE p \in RunParams : p.trade_side = "yes"
  /\ pc = "threads"
  /\ clock = 0
  /\ book = << >>
  /\ next_id = FirstNewId(book)
  /\ fills = 0
  /\ mid_price = 0
  /\ inventory = 0
  /\ current_time = 0
  /\ quote = [bid_price |-> 0, ask_price |-> 0, buy_size |-> 0, sell_size |-> 0]
  /\ buy_orders = << >>
  /\ sell_orders = << >>
  /\ action = "none"
  /\ orders = << >>
  /\ idx = 1
  /\ keep_order = << >>
  /\ desired_price = 0
  /\ desired_size = 0
  /\ current_price = 0
  /\ trace = << >>
  /\ result = NoResult

strategyVars == <<params, pc, clock, book, next_id, fills, runLocals, buy_orders,
                  sell_orders, sideLocals, trace, result>>

\* Thread t enters get, post or delete: now = datetime.now()
ReadNow(t) ==
  /\ threads[t].pc = "idle"
  /\ threads[t].calls < MaxCalls
  /\ threads' = [threads EXCEPT ![t].pc = "compare", ![t].now = wall]
  /\ UNCHANGED <<wall, last_api_call, sent, strategyVars>>

\* The test of rate_limit: time.sleep(threshold_in_seconds) or not.
Compare(t) ==
  /\ threads[t].pc = "compare"
  /\ threads' = IF MustSleep(threads[t].now, last_api_call)
                THEN [threads EXCEPT ![t].pc = "sleep", ![t].wake = wall + Threshold]
                ELSE [threads EXCEPT ![t].pc = "stamp"]
  /\ UNCHANGED <<wall, last_api_call, sent, strategyVars>>

\* time.sleep returns once the threshold has passed.
WakeUp(t) ==
  /\ threads[t].pc = "sleep"
  /\ wall >= threads[t].wake
  /\ threads' = [threads EXCEPT ![t].pc = "stamp"]
  /\ UNCHANGED <<wall, last_api_call, sent, strategyVars>>

\* self.last_api_call = datetime.now()
Stamp(t) ==
  /\ threads[t].pc = "stamp"
  /\ last_api_call' = wall
  /\ threads' = [threads EXCEPT ![t].pc = "request"]
  /\ UNCHANGED <<wall, sent, strategyVars>>

\* requests.get / requests.post / requests.delete
Request(t) ==
  /\ threads[t].pc = "request"
  /\ sent' = Append(sent, [thread |-> t, at |-> wall])
  /\ threads' = [threads EXCEPT ![t].pc = "idle", ![t].calls = @ + 1]
  /\ UNCHANGED <<wall, last_api_call, strategyVars>>

\* Time passes.
Tick ==
  /\ wall < MaxWall
  /\ wall' = wall + TickMs
  /\ UNCHANGED <<last_api_call, threads, sent, strategyVars>>

NextThrottle ==
  \/ \E t \in Threads : ReadNow(t)
  \/ \E t \in Threads : Compare(t)
  \/ \E t \in Threads : WakeUp(t)
  \/ \E t \in Threads : Stamp(t)
  \/ \E t \in Threads : Request(t)
  \/ Tick

SpecThrottle == InitThrottle /\ [][NextThrottle]_vars

\* C11 (gateway throttle under concurrency): any two HTTP requests issued
\* through the shared client, by the same thread or by different threads, are
\* at least the minimum inter-call interval (100 ms) apart.
C11_Throttle ==
  \A i \in 1..Len(sent) : \A j \in 1..Len(sent) :
    i < j => sent[j].at - sent[i].at >= Threshold


(***************************************************************************)
(* The quote engine on its own: the inputs are drawn by InitQuote and one  *)
(* of the functions is applied to them.                                    *)
(***************************************************************************)
\* Inventories reach MaxRatio times max_position on either side.
MaxRatio == 2

DefaultParams ==
  [gamma |-> 1000, k |-> 15000, sigma |-> 5000, T |-> 3600, max_position |-> 20,
   min_spread |-> 100, position_limit_buffer |-> 1000,
   inventory_skew_factor |-> 100, trade_side |-> "yes"]

\* The defaults with one parameter changed at a time, for three position caps.
QuoteParams ==
  { [q EXCEPT !.max_position = mp] :
      q \in { DefaultParams,
              [DefaultParams EXCEPT !.gamma = 500],
              [DefaultParams EXCEPT !.sigma = 0],
              [DefaultParams EXCEPT !.T = 2],
              [DefaultParams EXCEPT !.min_spread = 0],
              [DefaultParams EXCEPT !.min_spread = 300],
              [DefaultParams EXCEPT !.position_limit_buffer = 5000],
              [DefaultParams EXCEPT !.position_limit_buffer = FP],
              [DefaultParams EXCEPT !.inventory_skew_factor = 0] },
      mp \in {1, 5, 20} }

MidCents == {0, 1, 50, 99, 100}

\* Inventories far beyond the cap, where dynamic_gamma leaves the fixed point
\* and then the range of a double; drawn for max_position = 1.
ExtremeInventories == {30, 40, 720, 750}

QuoteInventories(p) ==
  (-(MaxRatio * p.max_position) .. (MaxRatio * p.max_position))
    \cup (IF p.max_position = 1
          THEN ExtremeInventories \cup { -i : i \in ExtremeInventories }
          ELSE {})

\* Elapsed times at which the engine is evaluated; run reads the clock again
\* after the loop test, so t may pass T.
QuoteTimes(p) == {0, 1, p.T \div 2, p.T - 1, p.T, p.T + 1}

InitQuote ==
  /\ params \in QuoteParams
  /\ mid_price \in { CENT * c : c \in MidCents }
  /\ inventory \in QuoteInventories(params)
  /\ current_time \in QuoteTimes(params)
  /\ pc = "quote"
  /\ result = NoResult
  /\ clock = 0
  /\ book = << >>
  /\ next_id = FirstNewId(book)
  /\ fills = 0
  /\ quote = [bid_price |-> 0, ask_price |-> 0, buy_size |-> 0, sell_size |-> 0]
  /\ buy_orders = << >>
  /\ sell_orders = << >>
  /\ action = "none"
  /\ orders = << >>
  /\ idx = 1
  /\ keep_order = << >>
  /\ desired_price = 0
  /\ desired_size = 0
  /\ current_price = 0
  /\ trace = << >>
  /\ ClientIdle

Apply(fn, val) ==
  /\ pc = "quote"
  /\ result = NoResult
  /\ result' = [fn |-> fn, val |-> val, raised |-> val[1] = ZeroDivisionError]
  /\ UNCHANGED <<throttleVars, params, pc, clock, book, next_id, fills, runLocals, buy_orders,
                 sell_orders, sideLocals, trace>>

ApplyDynamicGamma ==
  Apply("calculate_dynamic_gamma", << calculate_dynamic_gamma(params, inventory) >>)

ApplyReservationPrice ==
  Apply("calculate_reservation_price",
        << calculate_reservation_price(params, mid_price, inventory, current_time) >>)

ApplyOptimalSpread ==
  Apply("calculate_optimal_spread",
        << calculate_optimal_spread(params, current_time, inventory) >>)

ApplyAsymmetricQuotes ==
  Apply("calculate_asymmetric_quotes",
        calculate_asymmetric_quotes(params, mid_price, inventory, current_time))

ApplyOrderSizes ==
  Apply("calculate_order_sizes", calculate_order_sizes(params, inventory))

\* The locals bid_spread and ask_spread of calculate_asymmetric_quotes.
ApplyQuoteSpreads ==
  Apply("quote_spreads", QuoteSpreads(params, inventory, current_time))

NextQuote ==
  \/ ApplyDynamicGamma
  \/ ApplyReservationPrice
  \/ ApplyOptimalSpread
  \/ ApplyAsymmetricQuotes
  \/ ApplyOrderSizes
  \/ ApplyQuoteSpreads

SpecQuote == InitQuote /\ [][NextQuote]_vars


(***************************************************************************)
(* Properties of the order reconciler, checked under SpecCycle.  They read  *)
(* the trace of the cycle: the gateway calls, the log lines and the        *)
(* arguments handle_order_side was entered with.                           *)
(***************************************************************************)
Actions == {"buy", "sell"}

Calls(op, a) ==
  { i \in 1..Len(trace) :
      trace[i].kind = "call" /\ trace[i].op = op /\ trace[i].action = a }

Logs(msg, a) ==
  { i \in 1..Len(trace) :
      trace[i].kind = "log" /\ trace[i].msg = msg /\ trace[i].action = a }

Handled(a) ==
  { i \in 1..Len(trace) : trace[i].kind = "handle" /\ trace[i].action = a }

\* Order o has a price within 0.01 of the desired price of call h and a
\* remaining size equal to its desired size.
Matching(o, h) ==
  /\ Abs(OrderPrice(params, o) - h.desired_price) < CENT
  /\ o.remaining_count = h.desired_size

\* The call h got one order only, and it matches.
SingleMatch(h) == Len(h.orders) = 1 /\ Matching(h.orders[1], h)

\* The for loop over the orders of action a is over.
LoopDone(a) == Handled(a) # {} /\ ~(action = a /\ pc = "for_order")

\* handle_order_side has returned for action a.
SideDone(a) ==
  IF a = "buy" THEN Handled("sell") # {}
  ELSE Handled("sell") # {} /\ pc = "sleep"

\* Order o of action a was examined: kept, or a cancel call issued for it.
Examined(o, a) ==
  \/ \E i \in Logs("keeping", a) : trace[i].order_id = o.order_id
  \/ \E i \in Calls("cancel_order", a) : trace[i].order_id = o.order_id

\* The placement decision for action a was made: an order was kept, a place
\* call was issued, or the placement was skipped.
Decided(a) ==
  \/ Logs("keeping", a) # {}
  \/ Calls("create_order", a) # {}
  \/ Logs("skipped", a) # {}

\* C1 (reconciliation idempotence): if the only resting order of an action on
\* the traded side is within 0.01 of the desired price and its remaining size
\* equals the desired size, reconciling that action issues no cancel call and
\* no place call; when this holds for both actions, the whole manage_orders
\* cycle issues no cancel and no place call.
C1_Idempotence ==
  /\ \A a \in Actions : \A h \in Handled(a) :
       SingleMatch(trace[h])
         => Calls("cancel_order", a) = {} /\ Calls("create_order", a) = {}
  /\ (\A a \in Actions : \E h \in Handled(a) : SingleMatch(trace[h]))
       => \A i \in 1..Len(trace) :
            trace[i].kind = "call" => trace[i].op \notin {"cancel_order", "create_order"}

\* A cycle whose two sides each found their single matching order has run to
\* its end.
C1_Witness ==
  /\ pc = "sleep"
  /\ \A a \in Actions : \E h \in Handled(a) : SingleMatch(trace[h])

\* C2 (placement gate): a place call is issued only if no order was kept and
\* the desired price is strictly below (buy) or strictly above (sell) the
\* re-fetched mid; when no order was kept and the gate fails, equality
\* included, nothing is placed for that action in the cycle and the outcome is
\* logged as a skip at info level, not as an error.
C2_PlacementGate ==
  \A a \in Actions :
    /\ \A c \in Calls("create_order", a) :
         /\ Logs("keeping", a) = {}
         /\ \E h \in Handled(a) : \E r \in Calls("get_market", a) :
              /\ h < r
              /\ r < c
              /\ trace[r].ok
              /\ IF a = "buy" THEN trace[h].desired_price < trace[r].price
                 ELSE trace[h].desired_price > trace[r].price
    /\ \A h \in Handled(a) : \A r \in Calls("get_market", a) :
         ( /\ SideDone(a)
           /\ Logs("keeping", a) = {}
           /\ IF a = "buy" THEN trace[h].desired_price >= trace[r].price
              ELSE trace[h].desired_price <= trace[r].price )
         => /\ Calls("create_order", a) = {}
            /\ Logs("place_failed", a) = {}
            /\ \E s \in Logs("skipped", a) : trace[s].level = "info"

\* The buy side has returned with no order kept and a desired price equal to
\* the re-fetched mid.
C2_Witness ==
  /\ SideDone("buy")
  /\ Logs("keeping", "buy") = {}
  /\ \E h \in Handled("buy") : \E r \in Calls("get_market", "buy") :
       trace[r].ok /\ trace[h].desired_price = trace[r].price

\* C3 (keep/cancel partition): for any list of orders of one action,
\* handle_order_side keeps at most one order, the first in list order that is
\* within the 0.01 tolerance of the desired price with a remaining size equal
\* to the desired size, and issues exactly one cancel call for every other
\* order of the list, later matching orders included.
C3_KeepCancelPartition ==
  \A a \in Actions : \A h \in Handled(a) :
    LET os == trace[h].orders
        matches == { k \in 1..Len(os) : Matching(os[k], trace[h]) }
        first == { k \in matches : \A j \in matches : k <= j }
        cancels(k) == { i \in Calls("cancel_order", a) :
                          trace[i].order_id = os[k].order_id }
    IN  /\ Cardinality(Logs("keeping", a)) <= 1
        /\ LoopDone(a) =>
             /\ { trace[i].order_id : i \in Logs("keeping", a) }
                  = { os[k].order_id : k \in first }
             /\ \A k \in 1..Len(os) :
                  Cardinality(cancels(k)) = IF k \in first THEN 0 ELSE 1
             /\ Cardinality(Calls("cancel_order", a)) = Len(os) - Cardinality(first)

\* The loop is over for a list in which two orders match.
C3_Witness ==
  \E a \in Actions : \E h \in Handled(a) :
    /\ LoopDone(a)
    /\ Cardinality({ k \in 1..Len(trace[h].orders) :
                       Matching(trace[h].orders[k], trace[h]) }) >= 2

\* C4 (call ordering within one side): every cancel call of an action is
\* issued before the mid re-fetch of that action, the re-fetch before the place
\* call if there is one, and no cancel of that action follows the re-fetch or
\* the placement.
C4_CallOrdering ==
  \A a \in Actions :
    /\ \A c \in Calls("cancel_order", a) :
         /\ \E h \in Handled(a) : h < c
         /\ \A r \in Calls("get_market", a) : c < r
         /\ \A p \in Calls("create_order", a) : c < p
    /\ \A p \in Calls("create_order", a) :
         /\ \E r \in Calls("get_market", a) : r < p
         /\ \A r \in Calls("get_market", a) : r < p
    /\ LoopDone(a) /\ pc # "refetch" => Calls("get_market", a) # {}

\* One side issued a cancel, the re-fetch and a place call.
C4_Witness ==
  \E a \in Actions :
    /\ Calls("cancel_order", a) # {}
    /\ Calls("get_market", a) # {}
    /\ Calls("create_order", a) # {}

\* C5 (per-order failure isolation): a failed cancel_order or create_order
\* call is logged and does not raise out of the cycle; the remaining orders of
\* the action are still examined, the placement decision for the action is
\* still made, and the sell side is still reconciled after a failure on the
\* buy side.
C5_FailureIsolation ==
  /\ pc = "raised" =>
       /\ trace # << >>
       /\ trace[Len(trace)].kind = "call"
       /\ trace[Len(trace)].op \in {"get_market", "get_positions", "get_orders"}
  /\ \A a \in Actions : \A op \in {"cancel_order", "create_order"} :
       \A f \in Calls(op, a) : ~trace[f].ok =>
         /\ f < Len(trace)
         /\ trace[f + 1].kind = "log"
         /\ trace[f + 1].level = "error"
         /\ trace[f + 1].action = a
         /\ LoopDone(a) =>
              \A h \in Handled(a) : \A k \in 1..Len(trace[h].orders) :
                Examined(trace[h].orders[k], a)
         /\ SideDone(a) => Decided(a)
         /\ pc = "sleep" =>
              /\ Decided("sell")
              /\ \A h \in Handled("sell") : \A k \in 1..Len(trace[h].orders) :
                   Examined(trace[h].orders[k], "sell")

\* A cycle has run to its end although, on the buy side, the cancel of the
\* first of several orders failed and the place call failed too.
C5_Witness ==
  /\ pc = "sleep"
  /\ Handled("sell") # {}
  /\ \E h \in Handled("buy") : \E f \in Calls("cancel_order", "buy") :
       /\ ~trace[f].ok
       /\ Len(trace[h].orders) >= 2
       /\ trace[f].order_id = trace[h].orders[1].order_id
  /\ \E f \in Calls("create_order", "buy") : ~trace[f].ok


(***************************************************************************)
(* Properties of the quote engine, checked under SpecQuote.                *)
(***************************************************************************)

C7_SizeBounds ==
  ( /\ result.fn = "calculate_order_sizes"
    /\ Abs(inventory) <= params.max_position
    /\ params.max_position >= 1
    /\ 0 < params.position_limit_buffer
    /\ params.position_limit_buffer <= FP )
    => /\ 1 <= result.val[1] /\ result.val[1] <= params.max_position
       /\ 1 <= result.val[2] /\ result.val[2] <= params.max_position

\* The sizes of a strategy whose buffer floors to zero contracts.
C7_Witness ==
  /\ result.fn = "calculate_order_sizes"
  /\ Abs(inventory) <= params.max_position
  /\ (params.max_position * params.position_limit_buffer) \div FP = 0

\* C8 (size policy): with remaining_capacity = max_position - |inventory| and
\* buffer = floor(max_position * position_limit_buffer), the action that would
\* increase the absolute inventory (buy when long, sell when short) is sized
\* max(1, min(buffer, remaining_capacity)) and the action that would reduce it
\* is sized max_position.
C8_SizePolicy ==
  LET remaining_capacity == params.max_position - Abs(inventory)
      buffer == (params.max_position * params.position_limit_buffer) \div FP
      capped == Max(1, Min(buffer, remaining_capacity))
  IN  result.fn = "calculate_order_sizes"
        => /\ inventory > 0 => result.val = << capped, params.max_position >>
           /\ inventory < 0 => result.val = << params.max_position, capped >>

\* A short position whose remaining capacity, not the buffer, caps the sell.
C8_Witness ==
  /\ result.fn = "calculate_order_sizes"
  /\ inventory < 0
  /\ params.max_position - Abs(inventory) >= 2
  /\ params.max_position - Abs(inventory)
       < (params.max_position * params.position_limit_buffer) \div FP

\* C9 (spread floor): for every t and every inventory, |inventory| >=
\* max_position included, calculate_optimal_spread returns a value >=
\* min_spread.
C9_SpreadFloor ==
  (result.fn = "calculate_optimal_spread" /\ ~result.raised)
    => (result.val[1] # NaN /\ result.val[1] >= params.min_spread)

\* C10 (flat-inventory reservation price): for inventory = 0,
\* calculate_reservation_price(mid, 0, t) equals mid for every mid and t,
\* whatever gamma, sigma, T and inventory_skew_factor are.
C10_FlatReservation ==
  (result.fn = "calculate_reservation_price" /\ inventory = 0)
    => result.val[1] = mid_price

\* The reservation price of a flat book before the horizon, with a skew
\* factor and a volatility that would move it at any other inventory.
C10_Witness ==
  /\ result.fn = "calculate_reservation_price"
  /\ inventory = 0
  /\ mid_price > 0
  /\ current_time < params.T
  /\ params.inventory_skew_factor > 0
  /\ params.sigma > 0


(***************************************************************************)
(* Properties of the strategy loop, checked under SpecRun.                 *)
(***************************************************************************)
\* The control points of a cycle, from the first fetch to the sleep.
CyclePcs == {"get_mid_price", "get_current_position", "manage_orders",
             "for_order", "refetch", "place", "sleep", "raised"}

\* run has logged that it finished.
FinishedLogged ==
  \E i \in 1..Len(trace) : trace[i].kind = "log" /\ trace[i].msg = "finished"

\* No gateway call is in the trace.
NoCalls == \A i \in 1..Len(trace) : trace[i].kind # "call"

\* Once the elapsed time has reached T no cycle is under way and no gateway
\* call has been issued since.
C12_Safe ==
  /\ pc \in CyclePcs => clock < params.T
  /\ clock >= params.T => NoCalls
  /\ FinishedLogged => clock >= params.T

\* C12 (bounded run): a new cycle starts only while the elapsed time is < T;
\* once it is >= T no further cycle, hence no fetch, cancel or place call, is
\* started; and if every gateway call returns and time advances, the loop
\* eventually reaches Finished and logs completion (the other ways out are a
\* call that raised and an interrupt).
C12_BoundedRun ==
  /\ []C12_Safe
  /\ <>(pc \in {"raised", "killed"} \/ (pc = "finished" /\ FinishedLogged))

\* The loop has left at elapsed >= T and logged completion.
C12_Witness == pc = "finished" /\ FinishedLogged /\ clock >= params.T


\* The fetches of run and manage_orders that returned, by gateway operation.
Fetched(op) ==
  { i \in 1..Len(trace) :
      /\ trace[i].kind = "call"
      /\ trace[i].op = op
      /\ trace[i].action = "none"
      /\ trace[i].ok }

\* The trace records touching action a: its handle_order_side entry, its
\* gateway calls and its log lines.
Touching(a) == { i \in 1..Len(trace) : trace[i].action = a }

\* The quote engine has run in this cycle.
QuoteComputed == quote.buy_size > 0 /\ quote.sell_size > 0

\* The steps of the cycle under way, in the order they were taken.
C13_Ordered ==
  /\ \A i \in Fetched("get_positions") : \E j \in Fetched("get_market") : j < i
  /\ QuoteComputed <=> Fetched("get_positions") # {}
  /\ \A i \in Fetched("get_orders") :
       QuoteComputed /\ \E j \in Fetched("get_positions") : j < i
  /\ \A a \in Actions : \A h \in Handled(a) :
       /\ \E j \in Fetched("get_orders") : j < h
       /\ \A i \in Touching(a) : h <= i
       /\ trace[h].desired_price = IF a = "buy" THEN quote.bid_price ELSE quote.ask_price
  /\ \A h \in Handled("sell") :
       /\ \E b \in Handled("buy") : b < h
       /\ \A i \in Touching("buy") : i < h
       /\ Decided("buy")
       /\ \A b \in Handled("buy") : \A k \in 1..Len(trace[b].orders) :
            Examined(trace[b].orders[k], "buy")
  /\ \A op \in {"get_market", "get_positions", "get_orders"} :
       Cardinality(Fetched(op)) <= 1
  /\ \A a \in Actions : Cardinality(Handled(a)) <= 1
  /\ pc = "sleep" => Handled("sell") # {} /\ Decided("sell")

\* C13 (cycle order and non-overlap): every cycle performs, in this order,
\* market fetch, inventory fetch, quote computation, resting-order fetch,
\* buy-side reconciliation, sell-side reconciliation, sleep; the buy side is
\* fully reconciled before the sell side is touched; and a cycle starts only
\* from the loop test, which is reached only when the sleep of the previous
\* cycle has ended, with nothing of that cycle left to do.
C13_CycleOrder ==
  /\ []C13_Ordered
  /\ [][(pc # pc' /\ pc' = "get_mid_price" => pc = "while" /\ trace = << >>)
        /\ (pc # pc' /\ pc' = "while" => pc = "sleep" /\ clock' = clock + Dt)]_vars

\* A second cycle has run to its sleep, both sides reconciled.
C13_Witness ==
  /\ pc = "sleep"
  /\ clock > 0
  /\ Handled("buy") # {}
  /\ Handled("sell") # {}
  /\ Touching("buy") # {}

\* The fetches that failed in the cycle under way: market snapshot, position,
\* resting orders, or the mid re-fetch of handle_order_side.
FailedFetches ==
  { i \in 1..Len(trace) :
      /\ trace[i].kind = "call"
      /\ trace[i].op \in {"get_market", "get_positions", "get_orders"}
      /\ ~trace[i].ok }

ErrorLogged(i) ==
  /\ i <= Len(trace)
  /\ trace[i].kind = "log"
  /\ trace[i].level = "error"
  /\ trace[i].msg = "error_occurred"

C14_Safe ==
  /\ \A i \in FailedFetches :
       /\ pc \in {"raised", "stopped"}
       /\ \A j \in (i + 1)..Len(trace) : trace[j].kind = "log"
       /\ pc = "stopped" => ErrorLogged(i + 1)
  /\ pc = "raised" => FailedFetches # {}

\* C14 (fetch failure handling): a failed fetch is the last gateway call of
\* its cycle (no cancel or place call follows it), the loop is left, the
\* error is logged, and the strategy never stops after a failure without the
\* logged error.
C14_FetchFailure ==
  /\ []C14_Safe
  /\ (pc = "raised") ~> (pc = "stopped" /\ \E i \in FailedFetches : ErrorLogged(i + 1))

\* The mid re-fetch of the sell side failed after the buy side had issued
\* a call, and the strategy has stopped.
C14_Witness ==
  /\ pc = "stopped"
  /\ \E i \in FailedFetches : trace[i].action = "sell"
  /\ \E o \in {"cancel_order", "create_order"} : Calls(o, "buy") # {}

\* C15 (conditional mid re-fetch): during one action's reconciliation the
\* mid price is re-fetched only if no order was kept; when an order is kept
\* no get_market call is issued for that action.
C15_ConditionalRefetch ==
  \A a \in Actions : Logs("keeping", a) # {} => Calls("get_market", a) = {}

\* The cancel calls of the cycle under way, failed or not.
CancelCalls == Calls("cancel_order", "buy") \cup Calls("cancel_order", "sell")

\* C16 (no retry within a cycle): in one cycle each resting order id receives
\* at most one cancel call and each action at most one place call, whether
\* or not the calls fail.
C16_NoRetry ==
  /\ \A i \in CancelCalls : \A j \in CancelCalls :
       trace[i].order_id = trace[j].order_id => i = j
  /\ \A a \in Actions : Cardinality(Calls("create_order", a)) <= 1

\* A cycle has ended in which a cancel failed and a placement was rejected.
C16_Witness ==
  /\ pc = "sleep"
  /\ \E i \in CancelCalls : ~trace[i].ok
  /\ \E a \in Actions : \E i \in Calls("create_order", a) : ~trace[i].ok

(***************************************************************************)
(* Further properties of the quote engine, checked under SpecQuote.        *)
(***************************************************************************)
\* C17 (asymmetric spread direction): for inventory > 0 the ask-side spread
\* is strictly smaller than the bid-side spread, for inventory < 0 the
\* bid-side spread is strictly smaller than the ask-side spread, for
\* inventory = 0 both equal base_spread / 2, and the tighter side's spread
\* is never below min_spread / 2.
C17_SpreadDirection ==
  (result.fn = "quote_spreads" /\ ~result.raised) =>
    LET bid_spread == result.val[1]
        ask_spread == result.val[2]
        base_spread == calculate_optimal_spread(params, current_time, inventory)
    IN  /\ bid_spread # NaN
        /\ ask_spread # NaN
        /\ inventory > 0 => ask_spread < bid_spread
        /\ inventory < 0 => bid_spread < ask_spread
        /\ inventory = 0 => bid_spread = base_spread \div 2 /\ ask_spread = base_spread \div 2
        /\ bid_spread >= params.min_spread \div 2
        /\ ask_spread >= params.min_spread \div 2

(***************************************************************************)
(* Further properties of the order reconciler, checked under SpecCycle.    *)
(***************************************************************************)
\* The gateway operations the strategy calls.
StrategyOps == {"get_market", "get_positions", "get_orders", "cancel_order", "create_order"}

\* The mid price re-fetched for action a passes the placement gate of call h.
GatePassed(a, h) ==
  \E i \in Calls("get_market", a) :
    trace[i].ok /\ PlaceGate(a, h.desired_price, trace[i].price)

\* C18 (keep, cancel or replace only): the only order-mutating gateway calls
\* are cancel_order and create_order; an order whose remaining size equals the
\* desired size and whose price is within tolerance is kept (the first such
\* order of the list); an order whose remaining size differs from the desired
\* size is cancelled, never kept, and if no order is kept and the placement
\* gate passes a new order of the full desired size is placed.
C18_KeepCancelReplace ==
  /\ \A i \in 1..Len(trace) : trace[i].kind = "call" => trace[i].op \in StrategyOps
  /\ \A a \in Actions : \A h \in Handled(a) :
       LET os == trace[h].orders
           kept == { trace[i].order_id : i \in Logs("keeping", a) }
       IN  /\ \A k \in 1..Len(os) :
                os[k].remaining_count # trace[h].desired_size =>
                  /\ os[k].order_id \notin kept
                  /\ LoopDone(a) =>
                       \E i \in Calls("cancel_order", a) : trace[i].order_id = os[k].order_id
           /\ (LoopDone(a) /\ \E k \in 1..Len(os) : Matching(os[k], trace[h])) =>
                \E k \in 1..Len(os) : Matching(os[k], trace[h]) /\ os[k].order_id \in kept
           /\ \A i \in Calls("create_order", a) :
                /\ trace[i].count = trace[h].desired_size
                /\ kept = {}
                /\ GatePassed(a, trace[h])
           /\ (SideDone(a) /\ kept = {} /\ GatePassed(a, trace[h])) =>
                Calls("create_order", a) # {}

\* An order at a price within tolerance, partly filled below the desired
\* size, was cancelled and a new order of the full desired size was placed.
C18_Witness ==
  \E a \in Actions : \E h \in Handled(a) : \E k \in 1..Len(trace[h].orders) :
    LET o == trace[h].orders[k]
    IN  /\ Abs(OrderPrice(params, o) - trace[h].desired_price) < CENT
        /\ o.remaining_count < trace[h].desired_size
        /\ \E i \in Calls("cancel_order", a) : trace[i].order_id = o.order_id /\ trace[i].ok
        /\ \E i \in Calls("create_order", a) :
             trace[i].ok /\ trace[i].count = trace[h].desired_size
        /\ SideDone(a)

\* C19 (dynamic risk aversion bounds): for gamma > 0 and max_position > 0,
\* calculate_dynamic_gamma(inventory) lies in (0, gamma] for every inventory,
\* equals gamma at inventory 0, and is monotonically decreasing in
\* |inventory|.  The double is above 0.0 in every regime but "zero".
C19_DynamicGammaBounds ==
  (result.fn = "calculate_dynamic_gamma" /\ params.gamma > 0 /\ params.max_position > 0) =>
    /\ GammaRegime(params, inventory) # "zero"
    /\ result.val[1] >= 0
    /\ result.val[1] <= params.gamma
    /\ inventory = 0 => result.val[1] = params.gamma
    /\ \A j \in QuoteInventories(params) :
         Abs(j) <= Abs(inventory) => calculate_dynamic_gamma(params, j) >= result.val[1]

(***************************************************************************)
(* Exit paths of run_strategy, checked under SpecRun.                      *)
(***************************************************************************)
\* "Strategy ... stopped" is the last line of the log.
StoppedLogged ==
  /\ trace # << >>
  /\ trace[Len(trace)].kind = "log"
  /\ trace[Len(trace)].msg = "stopped"

\* C20 (interrupt exit): after an external interrupt the strategy starts no
\* further cycle, issues no cancel call while shutting down, and still logs
\* that it stopped; the stop message is logged on every exit path of
\* run_strategy: normal finish, interrupt, error.
C20_InterruptExit ==
  pc \in {"stopped", "killed"} => StoppedLogged

(***************************************************************************)
(* The skew of the reservation price, checked under SpecQuote.             *)
(***************************************************************************)
\* The reservation price the engine computes when the linear skew term is
\* switched off (inventory_skew_factor = 0).
ReservationWithoutSkew ==
  calculate_reservation_price([params EXCEPT !.inventory_skew_factor = 0],
                              mid_price, inventory, current_time)

\* C21 (skew direction): for every mid in (0, 1] and inventory_skew_factor
\* > 0 the linear term inventory * inventory_skew_factor * mid moves the
\* reservation price toward reducing the position: not upward when
\* inventory > 0 and not downward when inventory < 0.
C21_SkewDirection ==
  (/\ result.fn = "calculate_reservation_price"
   /\ mid_price > 0
   /\ params.inventory_skew_factor > 0) =>
    /\ inventory > 0 => result.val[1] <= ReservationWithoutSkew
    /\ inventory < 0 => result.val[1] >= ReservationWithoutSkew

(***************************************************************************)
(* Properties over consecutive cycles.  An order the strategy placed rests  *)
(* in the book with the whole-cent price and the size of its create call.  *)
(***************************************************************************)
\* Order o is the order a placement for call h creates: its price is
\* int(desired_price * 100) cents and its size the desired size.
PlacedFor(o, h) ==
  /\ OrderPrice(params, o) = CENT * PriceCents(h.desired_price)
  /\ o.remaining_count = h.desired_size

\* C22 (no order flapping): an order placed for an action with desired price
\* p and size s, unfilled, and met again by a cycle whose desired price and
\* size for that action are p and s, is kept although its price was
\* truncated to whole cents: the cycle keeps it (or an order before it in
\* the list), issues no cancel call for it and no place call for the action.
C22_NoFlapping ==
  \A a \in Actions : \A h \in Handled(a) :
    LET os == trace[h].orders
        kept == { trace[i].order_id : i \in Logs("keeping", a) }
    IN  \A k \in 1..Len(os) :
          (PlacedFor(os[k], trace[h]) /\ LoopDone(a)) =>
            /\ kept # {}
            /\ Calls("create_order", a) = {}
            /\ (\A j \in 1..(k - 1) : os[j].order_id \notin kept) =>
                 /\ os[k].order_id \in kept
                 /\ \A i \in Calls("cancel_order", a) :
                      trace[i].order_id # os[k].order_id

(***************************************************************************)
(* The position cap, checked under SpecQuote.                              *)
(***************************************************************************)
\* C23 (position cap respected by the quoted sizes): for every inventory
\* with |inventory| <= max_position, inventory + buy_size <= max_position
\* and inventory - sell_size >= -max_position, so that a complete fill of
\* either order leaves |inventory| <= max_position.
C23_PositionCap ==
  (result.fn = "calculate_order_sizes" /\ Abs(inventory) <= params.max_position) =>
    /\ inventory + result.val[1] <= params.max_position
    /\ inventory - result.val[2] >= -params.max_position

(***************************************************************************)
(* The prices of placed and kept orders against the re-fetched mid,        *)
(* checked under SpecCycle.                                                *)
(***************************************************************************)
\* A price in cents lies on the profitable side of mid for action a.
HasEdge(a, cents, mid) ==
  IF a = "buy" THEN CENT * cents < mid ELSE CENT * cents > mid

\* C24 (edge preserved by the cents conversion): for every order the
\* reconciler places, the whole-cent price sent to the venue,
\* int(desired_price * 100), is strictly below the re-fetched mid for a buy
\* and strictly above it for a sell.
C24_EdgeInCents ==
  \A a \in Actions : \A i \in Calls("create_order", a) : \A j \in Calls("get_market", a) :
    HasEdge(a, trace[i].price, trace[j].price)

\* C25 (a kept order also satisfies the edge condition): whenever the
\* reconciler keeps a resting order, that order's price is strictly below
\* the re-fetched mid for a buy and strictly above it for a sell.
C25_KeptOrderEdge ==
  \A a \in Actions : \A h \in Handled(a) : \A k \in 1..Len(trace[h].orders) :
    LET o == trace[h].orders[k]
    IN  (\E i \in Logs("keeping", a) : trace[i].order_id = o.order_id) =>
          \A j \in Calls("get_market", a) :
            trace[j].ok =>
              IF a = "buy" THEN OrderPrice(params, o) < trace[j].price
              ELSE OrderPrice(params, o) > trace[j].price

\* Every cancel call of the cycle under way succeeded.
CancelsSucceeded == \A i \in CancelCalls : trace[i].ok

\* The orders of the traded side resting for action a.
Resting(a) == SelectOrders(book, params.trade_side, a)

\* C26 (at most one resting order per action after reconciliation): if every
\* cancel call of a cycle succeeds and nothing else changes the book during
\* the cycle, then at the end of manage_orders at most one order rests on
\* (trade_side, buy) and at most one on (trade_side, sell), whatever number
\* rested there at the start of the cycle.
C26_OneRestingOrder ==
  (pc = "sleep" /\ CancelsSucceeded) =>
    \A a \in Actions : Len(Resting(a)) <= 1

\* manage_orders has returned from a cycle that met several orders of one
\* action, cancelled some of them, all with success, and left one resting.
C26_Witness ==
  /\ pc = "sleep"
  /\ CancelsSucceeded
  /\ \E a \in Actions : \E h \in Handled(a) :
       /\ Len(trace[h].orders) >= 2
       /\ Calls("cancel_order", a) # {}
       /\ Len(Resting(a)) = 1

(***************************************************************************)
(* The orders of the other side, checked under SpecSides.                  *)
(***************************************************************************)
\* The resting orders whose side is not the traded side, in book order.
OtherSide(os) ==
  SelectSeq(os, LAMBDA o : o.side # params.trade_side)

\* C27 (other-side orders are untouched): an order whose side differs from
\* trade_side is never handed to handle_order_side, so it takes no part in
\* the keep or place decision, and is never cancelled; the strategy cancels
\* only orders with side = trade_side of the action being reconciled, and no
\* step of any cycle changes the other side's orders.
C27_OtherSideUntouched ==
  /\ [](\A a \in Actions : \A h \in Handled(a) :
          /\ \A k \in 1..Len(trace[h].orders) :
               /\ trace[h].orders[k].side = params.trade_side
               /\ trace[h].orders[k].action = a
          /\ \A i \in Calls("cancel_order", a) :
               /\ trace[i].order_id \in OrderIds(trace[h].orders)
               /\ trace[i].order_id \notin OrderIds(OtherSide(book)))
  /\ [][OtherSide(book') = OtherSide(book)]_vars

\* A later cycle has cancelled an order of the traded side and has ended,
\* with orders of the other side resting.
C27_Witness ==
  /\ pc = "sleep"
  /\ clock > 0
  /\ OtherSide(book) # << >>
  /\ \E a \in Actions : \E i \in Calls("cancel_order", a) : trace[i].ok


====
